---- MODULE Spec2Model ----
(***************************************************************************)
(* A model of the two Google Apps Script programs of todoist_utilities:    *)
(*                                                                         *)
(*   createTodoistReport       Todoist tasks -> Google Sheet -> PDF file   *)
(*   syncGoogleTasksToTodoist  Google Tasks list -> Todoist, then delete   *)
(*                                                                         *)
(* The external services (Todoist, Google Tasks, Drive, Sheets, the script *)
(* properties, the clock) are state; every call the scripts make to them   *)
(* is recorded in `calls`, and the outcome of a call (a result, an HTTP    *)
(* error status, an exception) is a nondeterministic choice.               *)
(*                                                                         *)
(* JavaScript strings whose characters matter (notes, URLs, due stamps)    *)
(* are sequences of one-character strings; a value the code only tests     *)
(* for truthiness (undefined, null, '') is the empty sequence.             *)
(***************************************************************************)
EXTENDS Integers, Sequences, FiniteSets, TLC

VARIABLES
    script,       \* which of the two Apps Script projects this run-time is
    props,        \* the script properties that are set
    pc,           \* position of the running entry point ("idle": none runs)
    calls,        \* external calls of the current run, in order
    logs,         \* log lines of the current run (tags)
    outcome,      \* how the last run ended ("" while none has ended)
    faults,       \* failures the services have produced so far
    \* ---- Sync Pipeline
    listExists,   \* Google Tasks holds a list with the configured name
    gtasks,       \* the uncompleted tasks of that list, in listing order
    todoist,      \* the tasks created in Todoist (payloads), in order
    items,        \* tasks.items of the current run
    idx,          \* forEach position in items
    prevCalls,    \* the calls of the previous sync run
    \* ---- Report Pipeline
    folderExists, \* Drive holds the configured folder
    today,        \* the clock: index of the current day in Calendar
    folder,       \* files of the folder: [name, rows, trashed, day]
    sheets,       \* spreadsheets in Drive: [name, rows, trashed, day]
                  \* (day: the clock's date when the spreadsheet was created)
    runs,         \* report runs started so far
    run,          \* locals of the current report run
    \* ---- getUncompletedTasksByProject / createAndPopulateSheet on their own
    gin,          \* [projects, tasks]: the two fetched lists
    gout,         \* [phase, threw, groups, rows]
    \* ---- the sync transformation on its own
    tin,          \* a Google task
    tout          \* [phase, payload]

commonVars == <<script, props, pc, calls, logs, outcome, faults>>
syncVars   == <<listExists, gtasks, todoist, items, idx, prevCalls>>
reportVars == <<folderExists, today, folder, sheets, runs, run>>
groupVars  == <<gin, gout>>
descVars   == <<tin, tout>>
vars == <<commonVars, syncVars, reportVars, groupVars, descVars>>

\* ------------------------------------------------------------------ bounds

MaxFaults == 2      \* failures the services produce in one behaviour
MaxRuns   == 3      \* report runs in one behaviour
MaxTasks  == 2      \* length of a fetched Todoist task list (grouping)
MaxNotes  == 2      \* length of a Google task's notes (transformation)
MaxLinks  == 2      \* links of a Google task (transformation)

\* ----------------------------------------------------------------- helpers

Min(a, b) == IF a < b THEN a ELSE b

Range(s) == {s[i] : i \in 1..Len(s)}

RECURSIVE SeqsUpTo(_, _)
SeqsUpTo(S, n) ==
    IF n = 0 THEN {<<>>}
    ELSE LET shorter == SeqsUpTo(S, n - 1)
         IN  shorter \cup {Append(s, x) : s \in {t \in shorter : Len(t) = n - 1}, x \in S}

\* The sequences over S without repetition.
Arrangements(S) == {s \in SeqsUpTo(S, Cardinality(S)) :
                        \A i, j \in 1..Len(s) : i # j => s[i] # s[j]}

\* ------------------------------------------------- the sync transformation

WhiteSpace == {" ", "\t", "\n"}

RECURSIVE TrimStart(_)
TrimStart(s) == IF s # <<>> /\ Head(s) \in WhiteSpace THEN TrimStart(Tail(s)) ELSE s

RECURSIVE TrimEnd(_)
TrimEnd(s) ==
    IF s # <<>> /\ s[Len(s)] \in WhiteSpace THEN TrimEnd(SubSeq(s, 1, Len(s) - 1)) ELSE s

\* String.prototype.trim
Trim(s) == TrimEnd(TrimStart(s))

\* '\n\n---\n'
Separator == <<"\n", "\n", "-", "-", "-", "\n">>

\* 'Linked Email: '
LinkedEmail == <<"L", "i", "n", "k", "e", "d", " ", "E", "m", "a", "i", "l", ":", " ">>

\* task.links.find(link => link.type === 'email'): <<>> when there is none
\* (or no links at all), else the one-element sequence of the first match.
RECURSIVE FindEmailLink(_)
FindEmailLink(links) ==
    IF links = <<>> THEN <<>>
    ELSE IF Head(links).type = "email" THEN <<Head(links)>>
    ELSE FindEmailLink(Tail(links))

\* The description before trimming: the notes, then, with an email link, the
\* separator (only after notes) and the annotation.
DescriptionNoSeparator(task) ==
    LET emailLink == FindEmailLink(task.links)
    IN  IF emailLink = <<>> THEN task.notes
        ELSE task.notes \o LinkedEmail \o emailLink[1].link

Description(task) ==
    LET description == task.notes
        emailLink   == FindEmailLink(task.links)
    IN  IF emailLink = <<>> THEN description
        ELSE (IF description # <<>> THEN description \o Separator ELSE description)
                 \o LinkedEmail \o emailLink[1].link

\* todoistPayload: due_date is <<>> when the property is not set.
TodoistPayload(task) ==
    [content     |-> task.title,
     description |-> Trim(Description(task)),
     due_date    |-> IF task.due # <<>> THEN SubSeq(task.due, 1, Min(10, Len(task.due)))
                     ELSE <<>>]

\* ------------------------------------- grouping and rendering (the report)

\* Property names every object literal inherits from Object.prototype: a read
\* of tasksByProject[name] yields the inherited value (a function, or the
\* prototype itself), which is truthy and has no push method.
ObjectPrototypeKeys ==
    {"constructor", "toString", "toLocaleString", "valueOf", "hasOwnProperty",
     "isPrototypeOf", "propertyIsEnumerable", "__proto__"}

\* The project names of the model that are canonical array indices ("2" is,
\* "02" and "Work" are not), with their numeric values.
ArrayIndex == ("2" :> 2) @@ ("10" :> 10)

IsArrayIndex(key) == key \in DOMAIN ArrayIndex

ProjectIds   == {1, 2}
ProjectNames == {"Work", "Inbox", "2", "10", "constructor"}

\* A task as the Todoist API returns it; due is <<>> for null, else the
\* one-element sequence of due.string.
TodoistTasks ==
    [project_id : ProjectIds \cup {3}, content : {"a", "b"}, due : {<<>>, <<"today">>}]

\* projectMap[id] after projects.forEach: the name of the last project with
\* that id, <<>> when there is none.
RECURSIVE ProjectMapGet(_, _)
ProjectMapGet(projects, id) ==
    IF projects = <<>> THEN <<>>
    ELSE IF projects[Len(projects)].id = id THEN <<projects[Len(projects)].name>>
    ELSE ProjectMapGet(SubSeq(projects, 1, Len(projects) - 1), id)

\* projectMap[task.project_id] || 'Inbox'
ProjectName(projects, task) ==
    LET name == ProjectMapGet(projects, task.project_id)
    IN  IF name = <<>> \/ name[1] = "" THEN "Inbox" ELSE name[1]

\* { content: task.content, due: task.due ? task.due.string : 'No due date' }
TaskRow(task) ==
    [content |-> task.content,
     due     |-> IF task.due # <<>> THEN task.due[1] ELSE "No due date"]

\* tasksByProject is an object: its own properties in creation order, each
\* [key, rows].
HasOwn(obj, key) == \E i \in 1..Len(obj) : obj[i].key = key

OwnIndex(obj, key) == CHOOSE i \in 1..Len(obj) : obj[i].key = key

\* One callback of tasks.forEach on the accumulator [threw, obj]: the push
\* onto an inherited property throws a TypeError, which ends the function.
GroupTask(acc, projects, task) ==
    LET projectName == ProjectName(projects, task)
        obj         == acc.obj
    IN  IF acc.threw THEN acc
        ELSE IF HasOwn(obj, projectName)
        THEN [acc EXCEPT !.obj[OwnIndex(obj, projectName)].rows = Append(@, TaskRow(task))]
        ELSE IF projectName \in ObjectPrototypeKeys
        THEN [acc EXCEPT !.threw = TRUE]
        ELSE [acc EXCEPT !.obj = Append(obj, [key |-> projectName, rows |-> <<TaskRow(task)>>])]

RECURSIVE GroupAll(_, _, _)
GroupAll(acc, projects, tasks) ==
    IF tasks = <<>> THEN acc
    ELSE GroupAll(GroupTask(acc, projects, Head(tasks)), projects, Tail(tasks))

\* getUncompletedTasksByProject after the two fetches: [threw, obj].
GetUncompletedTasksByProject(projects, tasks) ==
    GroupAll([threw |-> FALSE, obj |-> <<>>], projects, tasks)

\* The own keys of an object in the order Object.keys and for...in give
\* them: the array indices in ascending numeric order, then the other keys
\* in creation order.
RECURSIVE SortIndices(_)
SortIndices(keys) ==
    IF keys = {} THEN <<>>
    ELSE LET least == CHOOSE k \in keys : \A j \in keys : ArrayIndex[k] <= ArrayIndex[j]
         IN  <<least>> \o SortIndices(keys \ {least})

CreationOrder(obj) == [i \in 1..Len(obj) |-> obj[i].key]

OwnKeysCreationOrder(obj) == CreationOrder(obj)

OwnKeys(obj) ==
    SortIndices({k \in Range(CreationOrder(obj)) : IsArrayIndex(k)})
        \o SelectSeq(CreationOrder(obj), LAMBDA k : ~IsArrayIndex(k))

\* Object.keys(tasksByProject).length === 0
NoTasksNever(obj) == FALSE

NoTasks(obj) == Len(OwnKeys(obj)) = 0

Row(kind, a, b) == [kind |-> kind, a |-> a, b |-> b]

\* The rows of one project section.
RECURSIVE TaskRows(_)
TaskRows(rows) ==
    IF rows = <<>> THEN <<>>
    ELSE <<Row("task", Head(rows).content, Head(rows).due)>> \o TaskRows(Tail(rows))

Section(obj, key) ==
    <<Row("project", key, ""), Row("header", "Task", "Due Date")>>
        \o TaskRows(obj[OwnIndex(obj, key)].rows)
        \o <<Row("blank", "", "")>>

RECURSIVE Sections(_, _)
Sections(obj, keys) ==
    IF keys = <<>> THEN <<>>
    ELSE Section(obj, Head(keys)) \o Sections(obj, Tail(keys))

\* The rows createAndPopulateSheet appends: the title, a spacer, and the
\* sections in for...in order (the title row carries the sheet's name, which
\* the spreadsheet record holds).
SheetRows(obj) ==
    <<Row("title", "Todoist Report", ""), Row("blank", "", "")>>
        \o Sections(obj, OwnKeys(obj))

\* ------------------------------------------------------ script properties

\* !TODOIST_API_TOKEN || !<the second property>: getProperty gives null for
\* a property that is not set, and either null ends the run.
ConfigurationIncompleteBoth(required) == required \cap props = {}

ConfigurationIncomplete(required) == \E p \in required : p \notin props

\* ----------------------------------------------------------- Sync Pipeline

SyncProps == {"TODOIST_API_TOKEN", "GOOGLE_TASK_LIST_NAME"}

\* '2024-05-01T00:00:00.000Z'
DueStamp == <<"2", "0", "2", "4", "-", "0", "5", "-", "0", "1", "T",
              "0", "0", ":", "0", "0", ":", "0", "0", ".", "0", "0", "0", "Z">>

EmailUrl == <<"h", "t", "t", "p", "s", ":", "/", "/", "m", "/", "x">>

\* The Google tasks a list may hold: three titled ones and one without a title.
SyncTaskPool ==
    { [id |-> 1, title |-> <<"A">>, notes |-> <<"r", "e">>, due |-> DueStamp,
       links |-> <<[type |-> "email", link |-> EmailUrl]>>],
      [id |-> 2, title |-> <<>>, notes |-> <<"x">>, due |-> <<>>, links |-> <<>>],
      [id |-> 3, title |-> <<"B">>, notes |-> <<>>, due |-> <<>>, links |-> <<>>],
      [id |-> 4, title |-> <<"C">>, notes |-> <<"n", "\n">>, due |-> <<>>,
       links |-> <<[type |-> "related", link |-> <<"v">>]>>] }

\* What UrlFetchApp.fetch can do with muteHttpExceptions: a response with a
\* status code, or an exception (code 0 stands for no response).
FetchOutcomes ==
    { [threw |-> FALSE, code |-> 200],
      [threw |-> FALSE, code |-> 500],
      [threw |-> TRUE,  code |-> 0] }

Call(op, id, threw, code) == [op |-> op, id |-> id, threw |-> threw, code |-> code]

\* Whether the run made a call of this kind for this task, and how it went.
Called(cs, op, id)    == \E i \in 1..Len(cs) : cs[i].op = op /\ cs[i].id = id
Succeeded(cs, op, id) == \E i \in 1..Len(cs) :
                            cs[i].op = op /\ cs[i].id = id /\ ~cs[i].threw /\ cs[i].code = 200
Failed(cs, op, id)    == \E i \in 1..Len(cs) :
                            cs[i].op = op /\ cs[i].id = id /\ (cs[i].threw \/ cs[i].code # 200)

Ids(ts) == {ts[i].id : i \in 1..Len(ts)}

Without(ts, id) == SelectSeq(ts, LAMBDA t : t.id # id)

\* createTodoistTask_: the response (TRUE) when the call returned status 200,
\* null (FALSE) for any other status and for an exception.
CreateTodoistTaskAnyResponse(fetch) == ~fetch.threw

CreateTodoistTask(fetch) == ~fetch.threw /\ fetch.code = 200

\* getTaskListIdByName_: the id (TRUE) of the list with the configured name,
\* null (FALSE) when the listing threw, is empty or holds no such list.
GetTaskListIdByNameFallback(threw, exists) == ~threw

GetTaskListIdByName(threw, exists) == ~threw /\ exists

\* !task.title: the callback returns at once for a task whose title is
\* undefined or the empty string.
HasNoTitleNever(task) == FALSE

HasNoTitle(task) == task.title = <<>>

\* tasks.items.forEach: the callback's outcome never ends the iteration; the
\* creation's failure is a null result and the removal's exception is caught
\* inside the callback.
NextItemStopOnCreateFailure(i, created, removeThrew) ==
    IF created THEN i + 1 ELSE Len(items) + 1

NextItemStopOnRemoveFailure(i, created, removeThrew) ==
    IF removeThrew THEN Len(items) + 1 ELSE i + 1

NextItem(i, created, removeThrew) == i + 1

Cost(b) == IF b THEN 1 ELSE 0

InitSync ==
    /\ script = "sync"
    /\ props \in SUBSET SyncProps
    /\ listExists \in BOOLEAN
    /\ gtasks \in Arrangements(SyncTaskPool)
    /\ todoist = <<>>
    /\ items = <<>> /\ idx = 0 /\ prevCalls = <<>>

\* syncGoogleTasksToTodoist, up to the configuration check.
SyncStart ==
    /\ script = "sync" /\ pc = "idle"
    /\ prevCalls' = calls
    /\ calls' = <<>>
    /\ items' = <<>> /\ idx' = 0
    /\ IF ~ConfigurationIncomplete(SyncProps)
       THEN /\ pc' = "getTaskListId"
            /\ logs' = {}
            /\ outcome' = ""
       ELSE /\ pc' = "idle"
            /\ logs' = {<<"config_incomplete", 0>>}
            /\ outcome' = "config_missing"
    /\ UNCHANGED <<script, props, faults, listExists, gtasks, todoist>>

\* getTaskListIdByName_ and the abort on a null id.
LookupTaskList ==
    /\ script = "sync" /\ pc = "getTaskListId"
    /\ \E threw \in BOOLEAN :
        /\ faults + Cost(threw) <= MaxFaults
        /\ faults' = faults + Cost(threw)
        /\ calls' = Append(calls, Call("Tasklists.list", 0, threw, IF threw THEN 0 ELSE 200))
        /\ IF GetTaskListIdByName(threw, listExists)
           THEN /\ pc' = "listTasks"
                /\ logs' = logs \cup {<<"found_list", 0>>}
                /\ UNCHANGED outcome
           ELSE /\ pc' = "idle"
                /\ logs' = logs \cup {<<"list_not_found", 0>>}
                                \cup (IF threw THEN {<<"lists_error", 0>>} ELSE {})
                /\ outcome' = "list_not_found"
    /\ UNCHANGED <<script, props, listExists, gtasks, todoist, items, idx, prevCalls>>

\* Tasks.Tasks.list and the "No tasks to sync" return; an exception reaches
\* the catch of the entry point.
ListTasks ==
    /\ script = "sync" /\ pc = "listTasks"
    /\ \E threw \in BOOLEAN :
        /\ faults + Cost(threw) <= MaxFaults
        /\ faults' = faults + Cost(threw)
        /\ calls' = Append(calls, Call("Tasks.list", 0, threw, IF threw THEN 0 ELSE 200))
        /\ IF threw
           THEN /\ pc' = "idle" /\ outcome' = "error"
                /\ logs' = logs \cup {<<"sync_error", 0>>}
                /\ UNCHANGED <<items, idx>>
           ELSE IF gtasks = <<>>
           THEN /\ pc' = "idle" /\ outcome' = "no_tasks"
                /\ logs' = logs \cup {<<"no_tasks", 0>>}
                /\ UNCHANGED <<items, idx>>
           ELSE /\ pc' = "forEach" /\ UNCHANGED outcome
                /\ items' = gtasks /\ idx' = 1
                /\ logs' = logs \cup {<<"found_tasks", 0>>}
    /\ UNCHANGED <<script, props, listExists, gtasks, todoist, prevCalls>>

\* The position after one callback: the next item, or the end of the run.
Advance(next) ==
    /\ idx' = next
    /\ IF next > Len(items)
       THEN pc' = "idle" /\ outcome' = "completed"
       ELSE pc' = "forEach" /\ UNCHANGED outcome

\* One callback of tasks.items.forEach.
ProcessTask ==
    /\ script = "sync" /\ pc = "forEach"
    /\ LET task == items[idx]
       IN  IF HasNoTitle(task)
           THEN /\ Advance(NextItem(idx, FALSE, FALSE))
                /\ UNCHANGED <<calls, logs, faults, gtasks, todoist>>
           ELSE \E fetch \in FetchOutcomes, removeThrew \in BOOLEAN :
                LET payload  == TodoistPayload(task)
                    accepted == ~fetch.threw /\ fetch.code = 200
                    created  == CreateTodoistTask(fetch)
                    removed  == created /\ ~removeThrew
                    cost     == Cost(~accepted) + Cost(created /\ removeThrew)
                IN  /\ ~created => ~removeThrew
                    /\ faults + cost <= MaxFaults
                    /\ faults' = faults + cost
                    /\ todoist' = IF accepted THEN Append(todoist, payload) ELSE todoist
                    /\ gtasks' = IF removed THEN Without(gtasks, task.id) ELSE gtasks
                    /\ calls' = calls
                         \o <<Call("todoist.create", task.id, fetch.threw, fetch.code)>>
                         \o (IF created
                             THEN <<Call("Tasks.remove", task.id, removeThrew,
                                         IF removeThrew THEN 0 ELSE 200)>>
                             ELSE <<>>)
                    /\ logs' = logs \cup {<<"processing", task.id>>}
                         \cup (IF fetch.threw THEN {<<"api_call_failed", task.id>>} ELSE {})
                         \cup (IF ~fetch.threw /\ fetch.code # 200
                               THEN {<<"api_error_status", task.id>>} ELSE {})
                         \cup (IF created THEN {<<"created", task.id>>}
                               ELSE {<<"create_failed", task.id>>})
                         \cup (IF removed THEN {<<"deleted", task.id>>} ELSE {})
                         \cup (IF created /\ removeThrew
                               THEN {<<"remove_failed", task.id>>} ELSE {})
                    /\ Advance(NextItem(idx, created, removeThrew))
    /\ UNCHANGED <<script, props, listExists, items, prevCalls>>

SyncNext ==
    \/ SyncStart /\ UNCHANGED <<reportVars, groupVars, descVars>>
    \/ LookupTaskList /\ UNCHANGED <<reportVars, groupVars, descVars>>
    \/ ListTasks /\ UNCHANGED <<reportVars, groupVars, descVars>>
    \/ ProcessTask /\ UNCHANGED <<reportVars, groupVars, descVars>>

\* --------------------------------------------------------- Report Pipeline

ReportProps == {"TODOIST_API_TOKEN", "GOOGLE_DRIVE_FOLDER_ID"}

\* A Date: the year, getMonth() (0 for January) and getDate().
FirstDay == [y |-> 2024, m |-> 11, d |-> 31]
LastDay  == [y |-> 2025, m |-> 0, d |-> 2]

DaysInMonth(y, m) ==
    IF m = 1 THEN (IF y % 4 = 0 /\ (y % 100 # 0 \/ y % 400 = 0) THEN 29 ELSE 28)
    ELSE IF m \in {3, 5, 8, 10} THEN 30 ELSE 31

\* setDate(getDate() - 1): day 0 is the last day of the month before.
YesterdayOfSameMonth(date) == [date EXCEPT !.d = IF @ > 1 THEN @ - 1 ELSE 1]

Yesterday(date) ==
    IF date.d > 1 THEN [date EXCEPT !.d = @ - 1]
    ELSE IF date.m > 0 THEN [y |-> date.y, m |-> date.m - 1, d |-> DaysInMonth(date.y, date.m - 1)]
    ELSE [y |-> date.y - 1, m |-> 11, d |-> 31]

\* The clock's next day.
Tomorrow(date) ==
    IF date.d < DaysInMonth(date.y, date.m) THEN [date EXCEPT !.d = @ + 1]
    ELSE IF date.m < 11 THEN [y |-> date.y, m |-> date.m + 1, d |-> 1]
    ELSE [y |-> date.y + 1, m |-> 0, d |-> 1]

\* (getMonth() + 1) + '-' + getDate() + '-' + getFullYear(): the three
\* numbers the dashes separate.
FormattedDate(date) == <<date.m + 1, date.d, date.y>>

\* `Todoist Report - ${formattedDate}`, the spreadsheet's name.
SheetName(date) == [prefix |-> "Todoist Report - ", date |-> FormattedDate(date), ext |-> ""]

\* spreadsheet.getName() + '.pdf'
PdfName(sheetName) == [sheetName EXCEPT !.ext = @ \o ".pdf"]

\* `Todoist Report - ${formattedDate}.pdf` of deleteYesterdaysReport.
YesterdaysFileName(date) ==
    [prefix |-> "Todoist Report - ", date |-> FormattedDate(Yesterday(date)), ext |-> ".pdf"]

\* What the two Todoist fetches may return in a report run.
ReportFetchPool ==
    { [projects |-> <<[id |-> 1, name |-> "Work"]>>, tasks |-> <<>>],
      [projects |-> <<[id |-> 1, name |-> "Work"], [id |-> 2, name |-> "2"]>>,
       tasks |-> <<[project_id |-> 1, content |-> "a", due |-> <<>>],
                   [project_id |-> 2, content |-> "b", due |-> <<"today">>]>>],
      [projects |-> <<[id |-> 1, name |-> "constructor"]>>,
       tasks |-> <<[project_id |-> 1, content |-> "a", due |-> <<>>]>>] }

Named(fs, name) == {i \in 1..Len(fs) : fs[i].name = name}

\* The locals of a report run, and what the run has seen: the clock's date at
\* the cleanup, the files of yesterday's name it found there, how the cleanup
\* went, the number of tasks fetched (-1: none fetched), the groups, and the
\* places of its spreadsheet in sheets and of its PDF in folder (0: none).
NoRun == [day |-> FirstDay, before |-> 0, cleanup |-> "", ntasks |-> -1,
          obj |-> <<>>, sheet |-> 0, exported |-> 0]

InitReport ==
    /\ script = "report"
    /\ props \in SUBSET ReportProps
    /\ folderExists \in BOOLEAN
    /\ today = FirstDay
    /\ folder = <<>> /\ sheets = <<>>
    /\ runs = 0
    /\ run = NoRun

\* The clock passes midnight.
Tick ==
    /\ script = "report"
    /\ today # LastDay
    /\ today' = Tomorrow(today)
    /\ UNCHANGED <<commonVars, folderExists, folder, sheets, runs, run>>

\* The first statement of createTodoistReport's try block after the starting
\* log line: deleteYesterdaysReport, ahead of getUncompletedTasksByProject.
FirstStepFetch == "fetch"

FirstStep == "cleanup"

\* createTodoistReport, up to the configuration check.
ReportStart ==
    /\ script = "report" /\ pc = "idle"
    /\ runs < MaxRuns
    /\ runs' = runs + 1
    /\ calls' = <<>>
    /\ run' = NoRun
    /\ IF ~ConfigurationIncomplete(ReportProps)
       THEN /\ pc' = FirstStep
            /\ logs' = {<<"starting", 0>>}
            /\ outcome' = ""
       ELSE /\ pc' = "idle"
            /\ logs' = {<<"config_incomplete", 0>>}
            /\ outcome' = "config_missing"
    /\ UNCHANGED <<script, props, faults, folderExists, today, folder, sheets>>

\* deleteYesterdaysReport: every exception is caught and logged inside it.
\* getFilesByName gives the files of that name in no promised order and
\* does not leave out the trashed ones; the first one it gives is trashed.
DeleteYesterdaysReport ==
    /\ script = "report" /\ pc = "cleanup"
    /\ LET fileName == YesterdaysFileName(today)
           found    == Named(folder, fileName)
           noted    == [run EXCEPT !.day = today, !.before = Cardinality(found)]
       IN  IF ~folderExists
           THEN /\ calls' = Append(calls, Call("getFolderById", 0, TRUE, 0))
                /\ logs' = logs \cup {<<"cleanup_failed", 0>>}
                /\ run' = [noted EXCEPT !.cleanup = "failed"]
                /\ UNCHANGED <<folder, faults>>
           ELSE IF found = {}
           THEN /\ calls' = calls \o <<Call("getFolderById", 0, FALSE, 200),
                                       Call("getFilesByName", 0, FALSE, 200)>>
                /\ logs' = logs \cup {<<"nothing_to_clean_up", 0>>}
                /\ run' = [noted EXCEPT !.cleanup = "none"]
                /\ UNCHANGED <<folder, faults>>
           ELSE \E i \in found, threw \in BOOLEAN :
                /\ faults + Cost(threw) <= MaxFaults
                /\ faults' = faults + Cost(threw)
                /\ calls' = calls \o <<Call("getFolderById", 0, FALSE, 200),
                                       Call("getFilesByName", 0, FALSE, 200),
                                       Call("setTrashed", i, threw, IF threw THEN 0 ELSE 200)>>
                /\ folder' = IF threw THEN folder ELSE [folder EXCEPT ![i].trashed = TRUE]
                /\ logs' = logs \cup {IF threw THEN <<"cleanup_failed", 0>>
                                      ELSE <<"cleaned_up", 0>>}
                /\ run' = [noted EXCEPT !.cleanup = IF threw THEN "failed" ELSE "trashed"]
    /\ pc' = "fetch"
    /\ UNCHANGED <<script, props, outcome, folderExists, today, sheets, runs>>

\* getUncompletedTasksByProject and the "No uncompleted tasks" return; an
\* exception (a failed fetch of the projects or of the tasks, the grouping's
\* TypeError) reaches the catch of the entry point.
FetchAndGroup ==
    /\ script = "report" /\ pc = "fetch"
    /\ \E fetched \in ReportFetchPool, thrower \in {"none", "projects", "tasks"} :
        LET grouped == GetUncompletedTasksByProject(fetched.projects, fetched.tasks)
            threw   == thrower # "none"
        IN  /\ faults + Cost(threw) <= MaxFaults
            /\ faults' = faults + Cost(threw)
            /\ calls' = calls
                 \o (IF thrower = "projects"
                     THEN <<Call("todoist.projects", 0, TRUE, 0)>>
                     ELSE <<Call("todoist.projects", 0, FALSE, 200),
                            Call("todoist.tasks", 0, threw, IF threw THEN 0 ELSE 200)>>)
            /\ IF threw \/ grouped.threw
               THEN /\ pc' = "idle" /\ outcome' = "error"
                    /\ logs' = logs \cup {<<"error", 0>>}
                    /\ run' = IF threw THEN run
                              ELSE [run EXCEPT !.ntasks = Len(fetched.tasks)]
               ELSE IF NoTasks(grouped.obj)
               THEN /\ pc' = "idle" /\ outcome' = "no_tasks"
                    /\ logs' = logs \cup {<<"no_tasks", 0>>}
                    /\ run' = [run EXCEPT !.ntasks = Len(fetched.tasks)]
               ELSE /\ pc' = "populate" /\ UNCHANGED outcome
                    /\ logs' = logs \cup {<<"found_tasks", 0>>}
                    /\ run' = [run EXCEPT !.ntasks = Len(fetched.tasks),
                                          !.obj = grouped.obj]
    /\ UNCHANGED <<script, props, folderExists, today, folder, sheets, runs>>

\* createAndPopulateSheet: the spreadsheet is named after the date of this
\* moment.
CreateAndPopulateSheet ==
    /\ script = "report" /\ pc = "populate"
    /\ sheets' = Append(sheets, [name |-> SheetName(today), rows |-> SheetRows(run.obj),
                                 trashed |-> FALSE, day |-> today])
    /\ run' = [run EXCEPT !.sheet = Len(sheets) + 1]
    /\ calls' = Append(calls, Call("SpreadsheetApp.create", Len(sheets) + 1, FALSE, 200))
    /\ logs' = logs \cup {<<"populated", 0>>}
    /\ pc' = "export"
    /\ UNCHANGED <<script, props, outcome, faults, folderExists, today, folder, runs>>

\* exportSheetAsPdf: whether an exception leaves it (the catch logs and
\* throws it again).
ExportSheetAsPdfSwallows(folderFound, blobThrew) == FALSE

ExportSheetAsPdfThrows(folderFound, blobThrew) == ~folderFound \/ blobThrew

\* exportSheetAsPdf, and the catch of the entry point when it throws.
ExportSheetAsPdf ==
    /\ script = "report" /\ pc = "export"
    /\ \E blobThrew \in BOOLEAN :
        LET sheet  == sheets[run.sheet]
            failed == ~folderExists \/ blobThrew
        IN  /\ folderExists \/ ~blobThrew
            /\ faults + Cost(blobThrew) <= MaxFaults
            /\ faults' = faults + Cost(blobThrew)
            /\ calls' = calls
                 \o <<Call("getFolderById", 0, ~folderExists, IF folderExists THEN 200 ELSE 0)>>
                 \o (IF folderExists
                     THEN <<Call("createFile", Len(folder) + 1, blobThrew,
                                 IF blobThrew THEN 0 ELSE 200)>>
                     ELSE <<>>)
            /\ folder' = IF failed THEN folder
                         ELSE Append(folder, [name |-> PdfName(sheet.name), rows |-> sheet.rows,
                                              trashed |-> FALSE, day |-> sheet.day])
            /\ run' = IF failed THEN run ELSE [run EXCEPT !.exported = Len(folder) + 1]
            /\ IF ExportSheetAsPdfThrows(folderExists, blobThrew)
               THEN /\ pc' = "idle" /\ outcome' = "error"
                    /\ logs' = logs \cup {<<"error", 0>>}
                           \cup (IF ~folderExists THEN {<<"folder_not_found", 0>>} ELSE {})
               ELSE /\ pc' = "trashSheet" /\ UNCHANGED outcome
                    /\ logs' = logs \cup (IF failed THEN {} ELSE {<<"pdf_created", 0>>})
    /\ UNCHANGED <<script, props, folderExists, today, sheets, runs>>

\* DriveApp.getFileById(spreadsheet.getId()).setTrashed(true) and the end of
\* the run.
TrashSpreadsheet ==
    /\ script = "report" /\ pc = "trashSheet"
    /\ \E threw \in BOOLEAN :
        /\ faults + Cost(threw) <= MaxFaults
        /\ faults' = faults + Cost(threw)
        /\ calls' = Append(calls, Call("setTrashed.sheet", run.sheet, threw,
                                       IF threw THEN 0 ELSE 200))
        /\ sheets' = IF threw THEN sheets ELSE [sheets EXCEPT ![run.sheet].trashed = TRUE]
        /\ logs' = logs \cup {IF threw THEN <<"error", 0>> ELSE <<"success", 0>>}
        /\ outcome' = IF threw THEN "error" ELSE "completed"
    /\ pc' = "idle"
    /\ UNCHANGED <<script, props, folderExists, today, folder, runs, run>>

ReportNext ==
    \/ Tick /\ UNCHANGED <<syncVars, groupVars, descVars>>
    \/ ReportStart /\ UNCHANGED <<syncVars, groupVars, descVars>>
    \/ DeleteYesterdaysReport /\ UNCHANGED <<syncVars, groupVars, descVars>>
    \/ FetchAndGroup /\ UNCHANGED <<syncVars, groupVars, descVars>>
    \/ CreateAndPopulateSheet /\ UNCHANGED <<syncVars, groupVars, descVars>>
    \/ ExportSheetAsPdf /\ UNCHANGED <<syncVars, groupVars, descVars>>
    \/ TrashSpreadsheet /\ UNCHANGED <<syncVars, groupVars, descVars>>

\* ------------------------------------------------------ the two entry points

SyncIdle ==
    /\ listExists = FALSE /\ gtasks = <<>> /\ todoist = <<>>
    /\ items = <<>> /\ idx = 0 /\ prevCalls = <<>>

ReportIdle ==
    /\ folderExists = FALSE /\ today = FirstDay
    /\ folder = <<>> /\ sheets = <<>> /\ runs = 0 /\ run = NoRun

GroupIdle ==
    /\ gin = [projects |-> <<>>, tasks |-> <<>>]
    /\ gout = [phase |-> "off"]

DescIdle ==
    /\ tin = [id |-> 1, title |-> <<>>, notes |-> <<>>, due |-> <<>>, links |-> <<>>]
    /\ tout = [phase |-> "off"]

CommonInit == pc = "idle" /\ calls = <<>> /\ logs = {} /\ outcome = "" /\ faults = 0

Init ==
    /\ CommonInit
    /\ \/ InitSync /\ ReportIdle
       \/ InitReport /\ SyncIdle
    /\ GroupIdle /\ DescIdle

Next == SyncNext \/ ReportNext

Spec == Init /\ [][Next]_vars

\* ------------------------- the grouping and the rendering on every input

\* The projects fetch: a project of each id, under any of the names.
ProjectLists ==
    {<<[id |-> 1, name |-> n1], [id |-> 2, name |-> n2]>> : n1, n2 \in ProjectNames}

OtherIdle ==
    /\ script = "functions" /\ props = {} /\ CommonInit
    /\ SyncIdle /\ ReportIdle

InitGroup ==
    /\ OtherIdle /\ DescIdle
    /\ gin \in [projects : ProjectLists, tasks : SeqsUpTo(TodoistTasks, MaxTasks)]
    /\ gout = [phase |-> "fetched", threw |-> FALSE, obj |-> <<>>, rows |-> <<>>]

\* getUncompletedTasksByProject on the fetched lists.
GroupTasks ==
    /\ gout.phase = "fetched"
    /\ LET grouped == GetUncompletedTasksByProject(gin.projects, gin.tasks)
       IN  gout' = [phase |-> "grouped", threw |-> grouped.threw, obj |-> grouped.obj,
                    rows |-> <<>>]
    /\ UNCHANGED <<gin, commonVars, syncVars, reportVars, descVars>>

\* createAndPopulateSheet on the groups, which the entry point calls when the
\* grouping returned a non-empty object.
RenderGroups ==
    /\ gout.phase = "grouped"
    /\ ~gout.threw /\ ~NoTasks(gout.obj)
    /\ gout' = [gout EXCEPT !.phase = "rendered", !.rows = SheetRows(gout.obj)]
    /\ UNCHANGED <<gin, commonVars, syncVars, reportVars, descVars>>

GroupNext == GroupTasks \/ RenderGroups

SpecGroup == InitGroup /\ [][GroupNext]_vars

\* ------------------------------------- the sync transformation on every input

NoteChars == {"n", " ", "\n"}

LinkPool == [type : {"email", "related"}, link : {<<"u">>, <<"v", "w">>}]

GoogleTasks ==
    [id : {1}, title : {<<>>, <<"T">>}, notes : SeqsUpTo(NoteChars, MaxNotes),
     due : {<<>>, DueStamp}, links : SeqsUpTo(LinkPool, MaxLinks)]

InitDesc ==
    /\ OtherIdle /\ GroupIdle
    /\ tin \in GoogleTasks
    /\ tout = [phase |-> "listed", payload |-> TodoistPayload(
                  [id |-> 1, title |-> <<>>, notes |-> <<>>, due |-> <<>>, links |-> <<>>])]

\* The callback of tasks.items.forEach up to the creation call: a task without
\* a title is skipped, any other gets its payload.
Transform ==
    /\ tout.phase = "listed"
    /\ tout' = IF tin.title = <<>> THEN [tout EXCEPT !.phase = "skipped"]
               ELSE [phase |-> "built", payload |-> TodoistPayload(tin)]
    /\ UNCHANGED <<tin, commonVars, syncVars, reportVars, groupVars>>

DescNext == Transform

SpecDesc == InitDesc /\ [][DescNext]_vars

\* =============================================================== properties

\* The items of the current sync run whose callback has returned.
Handled == 1..(idx - 1)

Titled(i) == items[i].title # <<>>

\* The call failed: an exception, or a status other than 200.
IsFailure(c) == c.threw \/ c.code # 200

\* C1, as stated: every source task handled in a run is gone from the Google
\* Tasks list if and only if its Todoist creation call reported success.
C1_DeletedIffCreated ==
    script = "sync" =>
        \A i \in Handled :
            (items[i].id \notin Ids(gtasks)) <=> Succeeded(calls, "todoist.create", items[i].id)

\* C1, amended: for every source task handled in a run, the removal call is
\* issued if and only if the creation call reported success (status 200), and
\* the task is gone from the list if and only if that removal call succeeded;
\* a task whose creation failed is still in the list, and a later run that
\* reaches the listing attempts every task whose creation failed in the run
\* before it.
C1_RemovalIffCreated ==
    script = "sync" =>
        /\ \A i \in Handled :
            LET id == items[i].id
            IN  /\ Called(calls, "Tasks.remove", id) <=> Succeeded(calls, "todoist.create", id)
                /\ (id \notin Ids(gtasks)) <=> Succeeded(calls, "Tasks.remove", id)
                /\ ~Succeeded(calls, "todoist.create", id) => id \in Ids(gtasks)
        /\ (pc = "idle" /\ outcome = "completed") =>
            \A t \in SyncTaskPool :
                Failed(prevCalls, "todoist.create", t.id) => Called(calls, "todoist.create", t.id)

\* C1's case: a task whose creation failed in one run stayed in the list and
\* was created, then removed, by the next run.
C1_Witness ==
    /\ script = "sync" /\ pc = "idle" /\ outcome = "completed"
    /\ \E t \in SyncTaskPool :
        /\ Failed(prevCalls, "todoist.create", t.id)
        /\ ~Called(prevCalls, "Tasks.remove", t.id)
        /\ Succeeded(calls, "todoist.create", t.id)
        /\ t.id \notin Ids(gtasks)

\* The run's only failure is the creation call of item k.
OnlyCreationFails(k) ==
    /\ Failed(calls, "todoist.create", items[k].id)
    /\ \A n \in 1..Len(calls) :
        IsFailure(calls[n]) => calls[n].op = "todoist.create" /\ calls[n].id = items[k].id

\* C2: when the creation call fails for a task of a batch, that task's removal
\* is skipped, it stays in the source list and the failure is logged, and
\* every other titled task of the batch, before and after it, still gets its
\* creation call and, on success, its removal call; when that creation is the
\* run's only failure, every other titled task is created in Todoist and gone
\* from the source list.
C2_FailureIsolated ==
    (script = "sync" /\ pc = "idle" /\ outcome = "completed") =>
        \A k \in 1..Len(items) :
            Failed(calls, "todoist.create", items[k].id) =>
                /\ ~Called(calls, "Tasks.remove", items[k].id)
                /\ items[k].id \in Ids(gtasks)
                /\ <<"create_failed", items[k].id>> \in logs
                /\ \A j \in 1..Len(items) :
                    (j # k /\ Titled(j)) =>
                        /\ Called(calls, "todoist.create", items[j].id)
                        /\ Succeeded(calls, "todoist.create", items[j].id)
                               => Called(calls, "Tasks.remove", items[j].id)
                        /\ OnlyCreationFails(k) =>
                            /\ Succeeded(calls, "todoist.create", items[j].id)
                            /\ TodoistPayload(items[j]) \in Range(todoist)
                            /\ items[j].id \notin Ids(gtasks)

\* C2's case: of three titled tasks the middle one's creation failed, and the
\* two around it were created and removed.
C2_Witness ==
    /\ script = "sync" /\ pc = "idle" /\ outcome = "completed"
    /\ \E k \in 2..(Len(items) - 1) :
        /\ Titled(k - 1) /\ Titled(k) /\ Titled(k + 1)
        /\ OnlyCreationFails(k)
        /\ items[k].id \in Ids(gtasks)
        /\ {items[k - 1].id, items[k + 1].id} \cap Ids(gtasks) = {}

\* C3: when the removal call fails after a successful creation, the failure
\* is logged, the task stays in the source list, and the run goes on to its
\* end: every titled task of the listing gets its creation call and, where
\* that succeeded, its removal call.
C3_RemovalFailureNotFatal ==
    script = "sync" =>
        \A i \in Handled :
            Failed(calls, "Tasks.remove", items[i].id) =>
                /\ <<"remove_failed", items[i].id>> \in logs
                /\ Succeeded(calls, "todoist.create", items[i].id)
                /\ items[i].id \in Ids(gtasks)
                /\ pc = "idle" =>
                    /\ outcome = "completed"
                    /\ \A j \in 1..Len(items) :
                        Titled(j) =>
                            /\ Called(calls, "todoist.create", items[j].id)
                            /\ Succeeded(calls, "todoist.create", items[j].id)
                                   => Called(calls, "Tasks.remove", items[j].id)

\* C3's case: a removal failed and a later task of the same run was created
\* and removed.
C3_Witness ==
    /\ script = "sync" /\ pc = "idle" /\ outcome = "completed"
    /\ \E i, j \in 1..Len(items) :
        /\ i < j
        /\ Failed(calls, "Tasks.remove", items[i].id)
        /\ Succeeded(calls, "todoist.create", items[j].id)
        /\ Succeeded(calls, "Tasks.remove", items[j].id)
        /\ items[j].id \notin Ids(gtasks)

\* C11: a task without a title that the run has passed got no creation call,
\* no removal call and no log line, is still in the source list, and nothing
\* in Todoist was built from it; once the run has ended, every titled task of
\* the same listing has got its creation call and, where that succeeded, its
\* removal call, and, when no call of the run failed, is in Todoist and gone
\* from the source list.
C11_UntitledSkipped ==
    script = "sync" =>
        /\ \A i \in Handled :
            ~Titled(i) =>
                /\ \A n \in 1..Len(calls) : calls[n].id # items[i].id
                /\ \A l \in logs : l[2] # items[i].id
                /\ items[i].id \in Ids(gtasks)
                /\ (pc = "idle" /\ outcome = "completed") =>
                    \A j \in 1..Len(items) :
                        Titled(j) =>
                            /\ Called(calls, "todoist.create", items[j].id)
                            /\ Succeeded(calls, "todoist.create", items[j].id)
                                   => Called(calls, "Tasks.remove", items[j].id)
                            /\ (\A n \in 1..Len(calls) : ~IsFailure(calls[n])) =>
                                /\ TodoistPayload(items[j]) \in Range(todoist)
                                /\ items[j].id \notin Ids(gtasks)
        /\ \A n \in 1..Len(todoist) : todoist[n].content # <<>>

\* C11's case: a run passed a task without a title that stood between two
\* titled ones, and created and removed both of those.
C11_Witness ==
    /\ script = "sync" /\ pc = "idle" /\ outcome = "completed"
    /\ \E i \in 2..(Len(items) - 1) :
        /\ ~Titled(i) /\ Titled(i - 1) /\ Titled(i + 1)
        /\ items[i].id \in Ids(gtasks)
        /\ {items[i - 1].id, items[i + 1].id} \cap Ids(gtasks) = {}
        /\ Succeeded(calls, "todoist.create", items[i - 1].id)
        /\ Succeeded(calls, "todoist.create", items[i + 1].id)

\* The script properties the running pipeline requires.
Required == IF script = "sync" THEN SyncProps ELSE ReportProps

\* C12: while one of the two required script properties is absent, no run
\* of either pipeline gets past its start: it makes no call (no fetch, no
\* folder or file lookup, no removal, no spreadsheet or PDF, no Todoist
\* creation), it ends at once with the configuration message as its only
\* log line, and no step changes the source list, Todoist, the folder or the
\* spreadsheets.
C12_AbortBeforeAnyCall ==
    /\ [](~(Required \subseteq props) =>
            /\ pc = "idle"
            /\ calls = <<>> /\ prevCalls = <<>>
            /\ todoist = <<>> /\ folder = <<>> /\ sheets = <<>>
            /\ run = NoRun
            /\ outcome \in {"", "config_missing"}
            /\ outcome = "config_missing" => logs = {<<"config_incomplete", 0>>}
            /\ outcome = "" => logs = {})
    /\ [][~(Required \subseteq props) =>
            UNCHANGED <<gtasks, todoist, folder, sheets, faults>>]_vars

\* C12's case: only the task list's name is missing, the list exists and
\* holds every task of the pool, and a sync run has ended at its start.
C12_Witness ==
    /\ script = "sync" /\ props = {"TODOIST_API_TOKEN"}
    /\ pc = "idle" /\ outcome = "config_missing"
    /\ listExists /\ Len(gtasks) = Cardinality(SyncTaskPool)
    /\ calls = <<>> /\ todoist = <<>>

\* The files of the folder that a report run of the day before `date` made.
FromTheDayBefore(date) == {i \in 1..Len(folder) : Tomorrow(folder[i].day) = date}

HasTaskRow(rows) == \E n \in 1..Len(rows) : rows[n].kind = "task"

\* The current report run created its spreadsheet and its export failed.
ExportFailed == run.sheet # 0 /\ pc # "export" /\ run.exported = 0

\* C4, as stated: once a report run has done its cleanup, and the removal did
\* not fail, no report made on the day before is left in the folder.
C4_YesterdaysReportGone ==
    (script = "report" /\ run.cleanup \in {"none", "trashed"}) =>
        \A i \in FromTheDayBefore(run.day) : folder[i].trashed

\* C4, amended: the cleanup is the first thing a report run does after the
\* configuration check, before any fetch and before the new report is made;
\* it looks up the files named by the naming rule for yesterday's date and
\* trashes one of them. If the folder holds exactly one file of that name and
\* the removal does not fail, no report of the day before is left after it;
\* if it finds none, the folder holds no report of the day before; and when
\* there is no such file, or the lookup or the removal fails, the run goes on
\* to the task fetch.
C4_CleanupFirstAndOneFile ==
    script = "report" =>
        /\ \A n \in 1..Len(calls) :
            calls[n].op \in {"todoist.projects", "todoist.tasks", "SpreadsheetApp.create",
                             "createFile"}
                => run.cleanup # "" /\ calls[1].op = "getFolderById"
        /\ (run.cleanup = "trashed" /\ run.before = 1) =>
            /\ FromTheDayBefore(run.day) # {}
            /\ \A i \in FromTheDayBefore(run.day) : folder[i].trashed
        /\ (run.cleanup = "none" /\ folderExists) => FromTheDayBefore(run.day) = {}
        /\ (run.cleanup # "" /\ pc = "idle") => Called(calls, "todoist.projects", 0)

\* C4's case: a run found the one report of the day before, trashed it and
\* exported the report of its own day.
C4_Witness ==
    /\ script = "report" /\ pc = "idle" /\ outcome = "completed"
    /\ run.cleanup = "trashed" /\ run.before = 1
    /\ \E i \in FromTheDayBefore(run.day) : folder[i].trashed
    /\ \E j \in 1..Len(folder) : folder[j].day = run.day /\ ~folder[j].trashed

\* C5, as stated: after the lookup of the destination folder, or of the
\* source task list, has missed, the run makes no further call.
C5_AbortAtLookupMiss ==
    /\ (script = "report" /\ ~folderExists) =>
        \A n \in 1..Len(calls) :
            (calls[n].op = "getFolderById" /\ calls[n].threw) => n = Len(calls)
    /\ (script = "sync" /\ ~listExists) =>
        \A n \in 1..Len(calls) : calls[n].op = "Tasklists.list" => n = Len(calls)

\* C5, amended: when the source task list cannot be found, the sync run ends
\* right after the lookup, with no listing, creation or removal call. When
\* the destination folder cannot be found, the report run logs the miss of
\* its cleanup and goes on: it fetches the tasks and, if there are any,
\* creates the spreadsheet; it aborts at the export, so that no PDF is
\* created, nothing is trashed, the spreadsheet stays in Drive and the run
\* never ends as completed.
C5_AbortAtListMissAndAtExport ==
    /\ (script = "sync" /\ (~listExists \/ Failed(calls, "Tasklists.list", 0))) =>
        /\ \A n \in 1..Len(calls) : calls[n].op = "Tasklists.list"
        /\ (pc = "idle" /\ calls # <<>>) =>
            outcome = "list_not_found" /\ <<"list_not_found", 0>> \in logs
        /\ ~listExists => todoist = <<>>
    /\ (script = "report" /\ ~folderExists) =>
        /\ folder = <<>>
        /\ \A n \in 1..Len(calls) :
            calls[n].op \notin {"createFile", "setTrashed", "setTrashed.sheet"}
        /\ \A i \in 1..Len(sheets) : ~sheets[i].trashed
        /\ (pc = "idle" /\ run.cleanup # "") =>
            /\ Called(calls, "todoist.projects", 0)
            /\ outcome \in {"error", "no_tasks"}
            /\ run.sheet # 0 => <<"folder_not_found", 0>> \in logs

\* C5's case: without the folder, a report run fetched the tasks, created the
\* spreadsheet and aborted at the export.
C5_Witness ==
    /\ script = "report" /\ ~folderExists
    /\ pc = "idle" /\ outcome = "error"
    /\ Called(calls, "todoist.tasks", 0)
    /\ run.sheet # 0 /\ ~sheets[run.sheet].trashed
    /\ <<"folder_not_found", 0>> \in logs

\* C6: the spreadsheet of a report run is trashed only after its PDF was
\* created in the folder; when the export fails, the run ends in the error
\* handler of the entry point and its spreadsheet is left untrashed.
C6_TrashOnlyAfterExport ==
    script = "report" =>
        /\ \A n \in 1..Len(calls) :
            calls[n].op = "setTrashed.sheet" =>
                \E m \in 1..(n - 1) : calls[m].op = "createFile" /\ ~IsFailure(calls[m])
        /\ \A i \in 1..Len(sheets) :
            sheets[i].trashed =>
                \E f \in 1..Len(folder) :
                    folder[f].name = PdfName(sheets[i].name) /\ folder[f].rows = sheets[i].rows
        /\ ExportFailed =>
            /\ pc = "idle" /\ outcome = "error"
            /\ ~sheets[run.sheet].trashed
            /\ ~Called(calls, "setTrashed.sheet", run.sheet)

\* C6's case: the folder exists, the export failed, and the spreadsheet is
\* still there.
C6_Witness ==
    /\ script = "report" /\ folderExists
    /\ ExportFailed /\ Failed(calls, "createFile", Len(folder) + 1)
    /\ ~sheets[run.sheet].trashed

\* C7: a report run whose fetch yields no task ends before it creates a
\* spreadsheet or a PDF, and no spreadsheet or PDF ever made is without a
\* task row.
C7_NoEmptyReport ==
    script = "report" =>
        /\ run.ntasks = 0 =>
            /\ pc = "idle" /\ outcome = "no_tasks"
            /\ run.sheet = 0 /\ run.exported = 0
            /\ \A n \in 1..Len(calls) : calls[n].op \notin {"SpreadsheetApp.create", "createFile"}
        /\ \A i \in 1..Len(sheets) : HasTaskRow(sheets[i].rows)
        /\ \A f \in 1..Len(folder) : HasTaskRow(folder[f].rows)

\* C7's case: a run fetched an empty task list and ended, after an earlier
\* run had made a report.
C7_Witness ==
    /\ script = "report" /\ pc = "idle"
    /\ run.ntasks = 0 /\ outcome = "no_tasks"
    /\ Len(folder) = 1 /\ Len(sheets) = 1

\* The current report run has ended without a PDF of its own: it found no
\* task, a fetch or the grouping failed, or the export failed.
Aborted ==
    /\ script = "report" /\ pc = "idle"
    /\ outcome \in {"no_tasks", "error"}
    /\ run.exported = 0

\* C13, as stated: after a report run that did its cleanup, with no failed
\* removal, and then aborted, the folder holds neither a report of the day
\* before nor a report of the run's day.
C13_AbortLeavesNeither ==
    (Aborted /\ run.cleanup \in {"none", "trashed"}) =>
        \A i \in 1..Len(folder) :
            (i \in FromTheDayBefore(run.day) \/ folder[i].day = run.day) => folder[i].trashed

\* C13, amended: the cleanup comes before the task fetch and is never undone.
\* No step untrashes or drops a file of the folder; every run that ends after
\* its start has done its cleanup before its first fetch; and a run that then
\* aborts has made no PDF and leaves trashed the file its cleanup trashed, a
\* file of yesterday's name. After such a run no report of the day before is
\* left when the cleanup found exactly one file of that name and its removal
\* did not fail; a report of the run's day that an earlier run exported is
\* still in the folder.
C13_CleanupBeforeFetchNeverUndone ==
    /\ [](script = "report" =>
            /\ (pc = "idle" /\ outcome \in {"no_tasks", "error", "completed"}) =>
                run.cleanup # ""
            /\ \A n \in 1..Len(calls) :
                calls[n].op \in {"todoist.projects", "todoist.tasks"} =>
                    /\ run.cleanup # ""
                    /\ \A m \in 1..Len(calls) :
                        calls[m].op \in {"getFilesByName", "setTrashed"} => m < n
            /\ Aborted =>
                /\ \A n \in 1..Len(calls) : calls[n].op = "createFile" => IsFailure(calls[n])
                /\ run.cleanup = "trashed" <=>
                       \E i \in 1..Len(folder) : Succeeded(calls, "setTrashed", i)
                /\ \A i \in 1..Len(folder) :
                    Succeeded(calls, "setTrashed", i) =>
                        /\ folder[i].trashed
                        /\ folder[i].name = YesterdaysFileName(run.day)
                /\ (run.cleanup = "trashed" /\ run.before = 1) =>
                    \A i \in FromTheDayBefore(run.day) : folder[i].trashed)
    /\ [][/\ Len(folder') >= Len(folder)
          /\ \A i \in 1..Len(folder) :
              /\ folder'[i].name = folder[i].name
              /\ folder[i].trashed => folder'[i].trashed]_vars

\* C13's case: a run trashed the one report of the day before and then found
\* no task: the folder holds no report but the trashed one.
C13_Witness ==
    /\ Aborted /\ outcome = "no_tasks"
    /\ run.cleanup = "trashed" /\ run.before = 1
    /\ Len(folder) = 1 /\ folder[1].trashed
    /\ Tomorrow(folder[1].day) = run.day

\* The group a fetched task belongs to: the name of the project with its
\* project id, "Inbox" when there is none.
ExpectedGroup(task) ==
    IF \E n \in 1..Len(gin.projects) : gin.projects[n].id = task.project_id
    THEN gin.projects[CHOOSE n \in 1..Len(gin.projects) :
                          gin.projects[n].id = task.project_id].name
    ELSE "Inbox"

TasksOf(name) == SelectSeq(gin.tasks, LAMBDA t : ExpectedGroup(t) = name)

Contents(rows) == [n \in 1..Len(rows) |-> rows[n].content]

\* The names of the groups in the order of their first task.
RECURSIVE FirstOccurrence(_)
FirstOccurrence(tasks) ==
    IF tasks = <<>> THEN <<>>
    ELSE LET before == FirstOccurrence(SubSeq(tasks, 1, Len(tasks) - 1))
             name   == ExpectedGroup(tasks[Len(tasks)])
         IN  IF name \in Range(before) THEN before ELSE Append(before, name)

Grouped == gout.phase \in {"grouped", "rendered"}

\* C8: the grouping returns for every fetched task list, every group is the
\* group of one name, the groups are those of the tasks' resolved project
\* names, and each group holds, in input order and with their content
\* unchanged, exactly the tasks of that name.
C8_EveryTaskInOneGroup ==
    Grouped =>
        /\ ~gout.threw
        /\ \A i, j \in 1..Len(gout.obj) : i # j => gout.obj[i].key # gout.obj[j].key
        /\ {gout.obj[i].key : i \in 1..Len(gout.obj)}
               = {ExpectedGroup(gin.tasks[n]) : n \in 1..Len(gin.tasks)}
        /\ \A i \in 1..Len(gout.obj) :
            Contents(gout.obj[i].rows) = Contents(TasksOf(gout.obj[i].key))

\* The project header rows of a sheet, in row order.
ProjectRows(rows) ==
    LET headers == SelectSeq(rows, LAMBDA r : r.kind = "project")
    IN  [n \in 1..Len(headers) |-> headers[n].a]

\* The section of a project, from the fetched tasks.
ExpectedSection(name) ==
    <<Row("project", name, ""), Row("header", "Task", "Due Date")>>
        \o [n \in 1..Len(TasksOf(name)) |->
                Row("task", TasksOf(name)[n].content,
                    IF TasksOf(name)[n].due = <<>> THEN "No due date"
                    ELSE TasksOf(name)[n].due[1])]
        \o <<Row("blank", "", "")>>

RECURSIVE ExpectedSections(_)
ExpectedSections(names) ==
    IF names = <<>> THEN <<>>
    ELSE ExpectedSection(Head(names)) \o ExpectedSections(Tail(names))

Position(seq, x) == CHOOSE n \in 1..Len(seq) : seq[n] = x

\* C9, as stated: the rendered sheet emits the project sections in the order
\* of the first occurrence of each project name in the fetched tasks.
C9_FirstOccurrenceOrder ==
    gout.phase = "rendered" =>
        /\ ProjectRows(gout.rows) = FirstOccurrence(gin.tasks)
        /\ gout.rows = <<Row("title", "Todoist Report", ""), Row("blank", "", "")>>
                           \o ExpectedSections(FirstOccurrence(gin.tasks))

\* C9, amended: the rendered sheet emits one section per project name
\* (project header row, Task/Due Date header, one row per task in input
\* order, blank separator); the names that are array indices ("2", "10")
\* come first, in ascending numeric order, and the other names follow in the
\* order of their first occurrence in the fetched tasks.
C9_IndicesThenFirstOccurrence ==
    gout.phase = "rendered" =>
        LET order == ProjectRows(gout.rows)
            first == FirstOccurrence(gin.tasks)
        IN  /\ Len(order) = Len(first) /\ Range(order) = Range(first)
            /\ \A m, n \in 1..Len(order) :
                m < n =>
                    /\ IsArrayIndex(order[n]) => IsArrayIndex(order[m])
                    /\ IsArrayIndex(order[n]) => ArrayIndex[order[m]] < ArrayIndex[order[n]]
                    /\ ~IsArrayIndex(order[m]) =>
                           Position(first, order[m]) < Position(first, order[n])
            /\ gout.rows = <<Row("title", "Todoist Report", ""), Row("blank", "", "")>>
                               \o ExpectedSections(order)

\* C9's case: a sheet whose sections are not in first-occurrence order,
\* because a later project's name is an array index.
C9_Witness ==
    /\ gout.phase = "rendered"
    /\ Len(ProjectRows(gout.rows)) = 2
    /\ ProjectRows(gout.rows) # FirstOccurrence(gin.tasks)
    /\ ~IsArrayIndex(ProjectRows(gout.rows)[2])

EmailLinks(task) == SelectSeq(task.links, LAMBDA l : l.type = "email")

EndsWith(s, suffix) ==
    Len(suffix) <= Len(s) /\ SubSeq(s, Len(s) - Len(suffix) + 1, Len(s)) = suffix

\* d is s without the whitespace before its first and after its last
\* character that is not whitespace.
IsTrimOf(d, s) ==
    /\ d # <<>> => d[1] \notin WhiteSpace /\ d[Len(d)] \notin WhiteSpace
    /\ \E lead \in 0..Len(s) :
        /\ lead + Len(d) <= Len(s)
        /\ SubSeq(s, lead + 1, lead + Len(d)) = d
        /\ \A n \in 1..Len(s) : (n <= lead \/ n > lead + Len(d)) => s[n] \in WhiteSpace

\* C10, as stated: with exactly one email link the description ends with
\* "Linked Email: <url>", after the notes and the separator when the notes
\* are not empty; with no email link the description is the notes.
C10_NotesSeparatorAnnotation ==
    tout.phase = "built" =>
        LET d == tout.payload.description
            e == EmailLinks(tin)
        IN  /\ Len(e) = 1 =>
                /\ EndsWith(d, LinkedEmail \o e[1].link)
                /\ tin.notes # <<>> => d = tin.notes \o Separator \o LinkedEmail \o e[1].link
            /\ Len(e) = 0 => d = tin.notes

\* C10, amended: with exactly one email link the description ends with
\* "Linked Email: <url>"; when the notes are not empty it is the notes, the
\* separator and the annotation with the whitespace at the start removed
\* (notes of whitespace alone leave "---\nLinked Email: <url>"), and when
\* they are empty it is the annotation alone; with no email link the
\* description is the notes with the whitespace at both ends removed.
C10_TrimmedDescription ==
    tout.phase = "built" =>
        LET d == tout.payload.description
            e == EmailLinks(tin)
        IN  /\ Len(e) = 1 =>
                /\ EndsWith(d, LinkedEmail \o e[1].link)
                /\ tin.notes # <<>> =>
                       IsTrimOf(d, tin.notes \o Separator \o LinkedEmail \o e[1].link)
                /\ tin.notes = <<>> => d = LinkedEmail \o e[1].link
            /\ Len(e) = 0 => IsTrimOf(d, tin.notes)

\* C10's case: a task with one email link whose notes start with whitespace:
\* the description keeps the separator and the annotation and loses the
\* start of the notes.
C10_Witness ==
    /\ tout.phase = "built"
    /\ Len(EmailLinks(tin)) = 1 /\ Len(tin.links) = 2
    /\ tin.notes # <<>> /\ tin.notes[1] \in WhiteSpace /\ tin.notes[Len(tin.notes)] = "n"
    /\ EndsWith(tout.payload.description,
                <<"n">> \o Separator \o LinkedEmail \o EmailLinks(tin)[1].link)

====
